---- MODULE Spec2Model ----
(***************************************************************************)
(* Account lifecycle of the Learn by Doing v1 backend: registration,       *)
(* login, admin approval / rejection, educator management and the users    *)
(* router, over the users table (app/models.py) and the JWT bearer token   *)
(* the client holds (app/security).                                        *)
(*                                                                         *)
(* Strings the code inspects character by character (passwords, emails)    *)
(* are sequences of one-character strings.                                 *)
(***************************************************************************)
EXTENDS Integers, Sequences, FiniteSets, TLC

VARIABLES
    users,      \* the users table: id -> row (a function on the ids present)
    bearer,     \* the bearer token the client sends with its next request
    last,       \* the request just handled: [op, status, target, arg]
    now,        \* the clock datetime.utcnow() reads, in minutes
    approvedAs, \* history: id -> target role of the latest successful approve
    decided,    \* history: ids a successful approve or reject has named
    regpc,      \* concurrent register requests: position of each request
    regreq,     \* concurrent register requests: the request body
    regresp,    \* concurrent register requests: status returned (0 = none yet)
    tickets,    \* how many reset tickets secrets.token_urlsafe has drawn
    outbox,     \* the reset mails handed to the notification service
    redeemed,   \* history: ticket -> number of reset requests it let succeed
    rstpc,      \* concurrent reset requests: position of each request
    rstreq,     \* concurrent reset requests: the request body
    rstrow,     \* concurrent reset requests: the row the request loaded
    rstresp,    \* concurrent reset requests: status returned (0 = none yet)
    lastWritten,\* history: id -> the reset ticket committed last for the row
    fgpc,       \* concurrent forgot-password requests: position of each
    fgrow,      \* concurrent forgot-password requests: the row loaded
    fgticket,   \* concurrent forgot-password requests: the ticket drawn
    nowms,      \* the part of the clock reading below one second, in ms
    issued      \* history: the instant the bearer token was issued at

vars == <<users, bearer, last, now, approvedAs, decided, regpc, regreq, regresp,
          tickets, outbox, redeemed, rstpc, rstreq, rstrow, rstresp,
          lastWritten, fgpc, fgrow, fgticket, nowms, issued>>

\* Python's None, by the type of the value it stands in for
None   == "None"   \* an absent string (role, notes, reason, error)
NoStr  == <<>>     \* an absent or empty character string (email, username)
NoId   == 0        \* an absent row or id (ids start at 1)
NoTime == 0 - 1    \* an absent datetime
NoTicket == 0      \* an absent reset ticket (tickets are numbered from 1)

-----------------------------------------------------------------------------
(* Characters and strings *)

UpperChars == <<"A","B","C","D","E","F","G","H","I","J","K","L","M",
                "N","O","P","Q","R","S","T","U","V","W","X","Y","Z">>
LowerChars == <<"a","b","c","d","e","f","g","h","i","j","k","l","m",
                "n","o","p","q","r","s","t","u","v","w","x","y","z">>
DigitChars == {"0","1","2","3","4","5","6","7","8","9"}

Range(s) == {s[i] : i \in DOMAIN s}

\* str.lower() on one character, then on a string
LowerChar(c) ==
    IF \E i \in DOMAIN UpperChars : UpperChars[i] = c
    THEN LowerChars[CHOOSE i \in DOMAIN UpperChars : UpperChars[i] = c]
    ELSE c

Lower(s) == [i \in DOMAIN s |-> LowerChar(s[i])]

\* Python's `sub in s` on strings
Contains(sub, s) ==
    \E i \in 0..(Len(s) - Len(sub)) : SubSeq(s, i + 1, i + Len(sub)) = sub

\* email.split("@")[0]
LocalPart(email) ==
    IF \E i \in DOMAIN email : email[i] = "@"
    THEN SubSeq(email, 1,
                (CHOOSE i \in DOMAIN email :
                    /\ email[i] = "@"
                    /\ \A j \in 1..(i - 1) : email[j] # "@") - 1)
    ELSE email

-----------------------------------------------------------------------------
(* Password policy: app/password_validator.py *)

MIN_LENGTH == 12

SPECIAL_CHARS == {"!","@","#","$","%","^","&","*","(",")","_","+","-","=",
                  "[","]","{","}","|",";",":",",",".","<",">","?"}

ErrLength  == "Password must be at least 12 characters long"
ErrUpper   == "Password must contain at least one uppercase letter"
ErrLower   == "Password must contain at least one lowercase letter"
ErrDigit   == "Password must contain at least one digit"
ErrSpecial == "Password must contain at least one special character"
ErrUser    == "Password should not contain your username or email"

\* PasswordValidator.validate stopping at the first rule that fails
ValidateErrors_first_only(password) ==
    IF Len(password) < MIN_LENGTH THEN <<ErrLength>>
    ELSE IF Range(password) \cap Range(UpperChars) = {} THEN <<ErrUpper>>
    ELSE IF Range(password) \cap Range(LowerChars) = {} THEN <<ErrLower>>
    ELSE IF Range(password) \cap DigitChars = {} THEN <<ErrDigit>>
    ELSE IF Range(password) \cap SPECIAL_CHARS = {} THEN <<ErrSpecial>>
    ELSE <<>>

\* PasswordValidator.validate: the ordered list of errors
ValidateErrors(password) ==
    (IF Len(password) < MIN_LENGTH THEN <<ErrLength>> ELSE <<>>)
    \o (IF Range(password) \cap Range(UpperChars) = {} THEN <<ErrUpper>> ELSE <<>>)
    \o (IF Range(password) \cap Range(LowerChars) = {} THEN <<ErrLower>> ELSE <<>>)
    \o (IF Range(password) \cap DigitChars = {} THEN <<ErrDigit>> ELSE <<>>)
    \o (IF Range(password) \cap SPECIAL_CHARS = {} THEN <<ErrSpecial>> ELSE <<>>)

\* validate_password(password, username): [is_valid, errors]
validate_password(password, username) ==
    LET base == ValidateErrors(password)
        hit  == username # <<>> /\ Contains(Lower(username), Lower(password))
        errs == IF hit THEN Append(base, ErrUser) ELSE base
    IN  [is_valid |-> (base = <<>>) /\ ~hit, errors |-> errs]

-----------------------------------------------------------------------------
(* Credential store: app/db.py, passlib argon2 *)

Salts == {"s1", "s2"}

\* the argon2 digest of a password under a salt (one-way: only compared)
Digest(password, salt) == <<"argon2id", salt, password>>

\* pwd_context.hash with the salt the call drew: self-describing hash
hash_password(password, salt) ==
    [scheme |-> "argon2", salt |-> salt, digest |-> Digest(password, salt)]

\* pwd_context.verify recomputing under one salt whatever the hash embeds
verify_password_fixed_salt(plain_password, hashed_password) ==
    Digest(plain_password, "s1") = hashed_password.digest

\* pwd_context.verify: recompute under the embedded salt and compare
verify_password(plain_password, hashed_password) ==
    Digest(plain_password, hashed_password.salt) = hashed_password.digest

-----------------------------------------------------------------------------
(* Roles: app/security/roles.py *)

RoleValues == {"pending", "teacher", "paraeducator", "admin", "super_admin",
               "superuser"}

\* Role(value) raises ValueError unless value is a member of the enum
IsRole(value) == value \in RoleValues

-----------------------------------------------------------------------------
(* The users table: app/models.py, app/db.py *)

Ids(store) == DOMAIN store

\* a new row as User(...) builds it: the column defaults of models.py
NewRow(email, username, hashed, role, is_approved) ==
    [email            |-> email,
     username         |-> username,
     hashed_password  |-> hashed,
     is_active        |-> TRUE,
     role             |-> role,
     is_approved      |-> is_approved,
     approved_at      |-> NoTime,
     approved_by_id   |-> NoId,
     approval_notes   |-> None,
     is_rejected      |-> FALSE,
     rejected_at      |-> NoTime,
     rejected_by_id   |-> NoId,
     rejection_reason |-> None,
     registered_date  |-> NoTime,
     password_reset_token        |-> NoTicket,
     password_reset_expires      |-> NoTime,
     password_reset_requested_at |-> NoTime]

\* db.query(User).filter(User.id == id).first()
get_user_by_id(store, id) ==
    IF id \in Ids(store) THEN id ELSE NoId

\* get_user_by_email: the id of the row, or None
get_user_by_email(store, email) ==
    IF \E i \in Ids(store) : store[i].email = email
    THEN CHOOSE i \in Ids(store) : store[i].email = email
    ELSE NoId

get_user_by_username(store, username) ==
    IF \E i \in Ids(store) : store[i].username = username
    THEN CHOOSE i \in Ids(store) : store[i].username = username
    ELSE NoId

\* user_exists with the email branch lost: only the username is looked up
user_exists_username_only(store, email, username) ==
    IF username # NoStr THEN get_user_by_username(store, username) # NoId
    ELSE FALSE

\* user_exists(db, email, username): the email decides when it is given
user_exists(store, email, username) ==
    IF email # NoStr THEN get_user_by_email(store, email) # NoId
    ELSE IF username # NoStr THEN get_user_by_username(store, username) # NoId
    ELSE FALSE

\* authenticate_user refusing an account whose active flag is off
authenticate_user_active_only(store, email, password) ==
    LET id == get_user_by_email(store, email)
    IN  IF id = NoId THEN NoId
        ELSE IF ~verify_password(password, store[id].hashed_password) THEN NoId
        ELSE IF ~store[id].is_active THEN NoId
        ELSE id

\* authenticate_user: looks the identifier up in the email column only
authenticate_user(store, email, password) ==
    LET id == get_user_by_email(store, email)
    IN  IF id = NoId THEN NoId
        ELSE IF ~verify_password(password, store[id].hashed_password) THEN NoId
        ELSE id

\* the unique indexes on email and username (models.py) at commit time
UniqueOk(store) ==
    \A i, j \in Ids(store) :
        i # j => /\ store[i].email # store[j].email
                 /\ store[i].username # store[j].username

NextId(store) ==
    IF Ids(store) = {} THEN 1
    ELSE 1 + (CHOOSE m \in Ids(store) : \A i \in Ids(store) : i <= m)

\* db.create_user: hash, add, commit. [ok, store, id]; ok = FALSE is the
\* IntegrityError of a duplicate email or username
create_user(store, email, username, password, salt, role, is_approved) ==
    LET id  == NextId(store)
        row == NewRow(email, username, hash_password(password, salt),
                      role, is_approved)
        new == [i \in Ids(store) \cup {id} |->
                    IF i = id THEN row ELSE store[i]]
    IN  IF UniqueOk(new) THEN [ok |-> TRUE, store |-> new, id |-> id]
        ELSE [ok |-> FALSE, store |-> store, id |-> NoId]

\* the parameters db.create_user declares
CreateUserParams ==
    {"db", "email", "username", "password", "first_name", "last_name",
     "role", "is_approved"}

\* the keyword arguments register and create_educator pass to create_user
RegisterKwargs ==
    {"db", "email", "username", "password", "first_name", "last_name",
     "desired_name", "phone"}

EducatorKwargs ==
    {"db", "email", "password", "first_name", "last_name", "username",
     "desired_name", "phone"}

\* a Python call binds only when every keyword is a declared parameter;
\* otherwise it raises TypeError before the body runs
CallBinds(kwargs, params) == kwargs \subseteq params

-----------------------------------------------------------------------------
(* Token issuer and Access Guard: app/security *)

SECRET_KEY == "server-secret"
ForgedKey  == "other-secret"

ACCESS_TOKEN_EXPIRE_MINUTES == 30
REFRESH_TOKEN_EXPIRE_DAYS == 7

\* timedelta(days = d) on the clock, which counts minutes
Days(d) == 1440 * d

\* dict.get(key): the value, or Python's None (given in the value's type)
Get(payload, key, none) == IF key \in DOMAIN payload THEN payload[key] ELSE none

\* JWTManager.create_access_token(TokenPayload(user_id, email, role)) at t.
\* jwt.encode writes exp and iat with calendar.timegm, in whole seconds: t is
\* the clock reading without its part below one second
create_access_token(user_id, email, role, t) ==
    [key     |-> SECRET_KEY,
     payload |-> [user_id |-> user_id,
                  email   |-> email,
                  role    |-> role,
                  type    |-> "access",
                  exp     |-> t + ACCESS_TOKEN_EXPIRE_MINUTES,
                  iat     |-> t]]

\* a token an outsider signs with a key of their own, claiming to be an admin
ForgedToken ==
    [key     |-> ForgedKey,
     payload |-> [user_id |-> 1,
                  email   |-> <<"a","d","m","@","x">>,
                  role    |-> "admin",
                  type    |-> "access",
                  exp     |-> ACCESS_TOKEN_EXPIRE_MINUTES,
                  iat     |-> 0]]

\* JWTManager.create_refresh_token(TokenPayload(user_id, email, ...)) at t
create_refresh_token(user_id, email, t) ==
    [key     |-> SECRET_KEY,
     payload |-> [user_id |-> user_id,
                  email   |-> email,
                  type    |-> "refresh",
                  exp     |-> t + Days(REFRESH_TOKEN_EXPIRE_DAYS),
                  iat     |-> t]]

\* verify_token still accepting a token at the instant its exp names
verify_token_late(token, t) ==
    IF token.key # SECRET_KEY
    THEN [err |-> "InvalidTokenError", payload |-> token.payload]
    ELSE IF token.payload.exp < t
         THEN [err |-> "ExpiredSignatureError", payload |-> token.payload]
         ELSE [err |-> None, payload |-> token.payload]

\* JWTManager.verify_token: jwt.decode checks the signature, then exp against
\* the clock; exp is a whole number of seconds, so the part of the reading
\* below one second never decides
verify_token(token, t) ==
    IF token.key # SECRET_KEY
    THEN [err |-> "InvalidTokenError", payload |-> token.payload]
    ELSE IF token.payload.exp <= t
         THEN [err |-> "ExpiredSignatureError", payload |-> token.payload]
         ELSE [err |-> None, payload |-> token.payload]

DetailTokenType    == "Invalid token type"
DetailTokenExpired == "Token has expired"
DetailTokenInvalid == "Invalid token"

\* get_current_user without the test of the token kind
get_current_user_any_kind(token, t) ==
    LET v == verify_token(token, t)
    IN  IF v.err = "ExpiredSignatureError"
        THEN [status |-> 401, payload |-> v.payload, detail |-> DetailTokenExpired]
        ELSE IF v.err # None
        THEN [status |-> 401, payload |-> v.payload, detail |-> DetailTokenInvalid]
        ELSE [status |-> 200, payload |-> v.payload, detail |-> None]

\* get_current_user looking the subject up in the table: a token whose
\* account is gone, rejected or holds another role is refused
get_current_user_live(token, t) ==
    LET v  == verify_token(token, t)
        id == Get(v.payload, "user_id", 0)
    IN  IF v.err = "ExpiredSignatureError"
        THEN [status |-> 401, payload |-> v.payload, detail |-> DetailTokenExpired]
        ELSE IF v.err # None
        THEN [status |-> 401, payload |-> v.payload, detail |-> DetailTokenInvalid]
        ELSE IF Get(v.payload, "type", None) # "access"
        THEN [status |-> 401, payload |-> v.payload, detail |-> DetailTokenType]
        ELSE IF id \notin DOMAIN users
        THEN [status |-> 401, payload |-> v.payload, detail |-> DetailTokenInvalid]
        ELSE IF users[id].is_rejected \/ users[id].role # v.payload.role
        THEN [status |-> 401, payload |-> v.payload, detail |-> DetailTokenInvalid]
        ELSE [status |-> 200, payload |-> v.payload, detail |-> None]

\* get_current_user: [status, payload, detail]
get_current_user(token, t) ==
    LET v == verify_token(token, t)
    IN  IF v.err = "ExpiredSignatureError"
        THEN [status |-> 401, payload |-> v.payload, detail |-> DetailTokenExpired]
        ELSE IF v.err # None
        THEN [status |-> 401, payload |-> v.payload, detail |-> DetailTokenInvalid]
        ELSE IF Get(v.payload, "type", None) # "access"
        THEN [status |-> 401, payload |-> v.payload, detail |-> DetailTokenType]
        ELSE [status |-> 200, payload |-> v.payload, detail |-> None]

\* require_role without the membership test: any verified token passes
require_role_any(allowed_roles, token, t) == get_current_user(token, t)

\* require_role letting super_admin through like superuser
require_role_super_admin_bypass(allowed_roles, token, t) ==
    LET cu == get_current_user(token, t)
    IN  IF cu.status # 200 THEN cu
        ELSE IF Get(cu.payload, "role", None) \in {"superuser", "super_admin"}
        THEN cu
        ELSE IF Get(cu.payload, "role", None) \notin allowed_roles
             THEN [status |-> 403, payload |-> cu.payload,
                   detail |-> "Insufficient permissions"]
             ELSE cu

\* require_role(*allowed_roles): [status, payload, detail]
require_role(allowed_roles, token, t) ==
    LET cu == get_current_user(token, t)
    IN  IF cu.status # 200 THEN cu
        ELSE IF Get(cu.payload, "role", None) = "superuser" THEN cu
        ELSE IF Get(cu.payload, "role", None) \notin allowed_roles
             THEN [status |-> 403, payload |-> cu.payload,
                   detail |-> "Insufficient permissions"]
             ELSE cu

AdminRoles == {"admin", "super_admin"}

-----------------------------------------------------------------------------
(* Request values *)

EAdmin == <<"a","d","m","@","x">>
EUser  == <<"j","o","@","x">>
EFresh == <<"b","@","x">>
ESup   == <<"s","u","p","3","r","@","x">>

UAdmin == <<"a","d","m">>
UUser  == <<"a","u","s","e","r">>
UFresh == <<"b","u","s","e","r">>

PwAdmin == <<"A","d","m","1","n","#","P","a","s","s","w","0","r","d","!">>
PwUser  == <<"S","u","p","3","r","$","e","c","r","e","t","P","a","s","s","!">>
PwWeak  == <<"w","e","a","k","p","a","s","s">>

-----------------------------------------------------------------------------
(* POST /auth/login: app/routers/auth.py *)

DetailNoIdentifier == "Either email or username must be provided"
DetailBadLogin     == "Invalid email/username or password"
DetailTokenFailed  == "Failed to generate authentication token"

\* login telling an unknown identifier apart from a wrong password
login_reveals_unknown(store, email, username, password, t) ==
    LET email_or_username == IF email # NoStr THEN email ELSE username
        id == authenticate_user(store, email_or_username, password)
    IN  IF email_or_username = NoStr
        THEN [status |-> 400, id |-> NoId, token |-> ForgedToken,
              detail |-> DetailNoIdentifier]
        ELSE IF get_user_by_email(store, email_or_username) = NoId
        THEN [status |-> 404, id |-> NoId, token |-> ForgedToken,
              detail |-> "No account with this email or username"]
        ELSE IF id = NoId
        THEN [status |-> 401, id |-> NoId, token |-> ForgedToken,
              detail |-> DetailBadLogin]
        ELSE IF ~IsRole(store[id].role)
        THEN [status |-> 500, id |-> id, token |-> ForgedToken,
              detail |-> DetailTokenFailed]
        ELSE [status |-> 200, id |-> id,
              token |-> create_access_token(id, store[id].email,
                                            store[id].role, t),
              detail |-> None]

\* [status, id, token, detail]; token is meaningful when status = 200
login(store, email, username, password, t) ==
    LET email_or_username == IF email # NoStr THEN email ELSE username
        id == authenticate_user(store, email_or_username, password)
    IN  IF email_or_username = NoStr
        THEN [status |-> 400, id |-> NoId, token |-> ForgedToken,
              detail |-> DetailNoIdentifier]
        ELSE IF id = NoId
        THEN [status |-> 401, id |-> NoId, token |-> ForgedToken,
              detail |-> DetailBadLogin]
        ELSE IF ~IsRole(store[id].role)
        THEN [status |-> 500, id |-> id, token |-> ForgedToken,
              detail |-> DetailTokenFailed]
        ELSE [status |-> 200, id |-> id,
              token |-> create_access_token(id, store[id].email,
                                            store[id].role, t),
              detail |-> None]

-----------------------------------------------------------------------------
(* POST /auth/refresh, POST /auth/logout, GET /auth/me *)

\* refresh_token naming the account by the user_id claim and skipping the
\* approval test
refresh_token_unchecked(store, token, t) ==
    LET v  == verify_token(token, t)
        id == get_user_by_id(store, Get(v.payload, "user_id", NoId))
    IN  IF v.err # None \/ Get(v.payload, "type", None) # "refresh"
        THEN [status |-> 401, id |-> NoId, token |-> ForgedToken]
        ELSE IF id = NoId \/ ~IsRole(store[id].role)
        THEN [status |-> 401, id |-> NoId, token |-> ForgedToken]
        ELSE [status |-> 200, id |-> id,
              token |-> create_access_token(id, store[id].email,
                                            store[id].role, t)]

\* [status, id, token]: every ValueError and jwt error ends in the one 401;
\* the account is named by payload.get("sub")
refresh_token(store, token, t) ==
    LET v       == verify_token(token, t)
        user_id == Get(v.payload, "sub", NoId)
        id      == get_user_by_id(store, user_id)
    IN  IF v.err # None \/ Get(v.payload, "type", None) # "refresh"
        THEN [status |-> 401, id |-> NoId, token |-> ForgedToken]
        ELSE IF user_id = NoId
        THEN [status |-> 401, id |-> NoId, token |-> ForgedToken]
        ELSE IF id = NoId
        THEN [status |-> 401, id |-> NoId, token |-> ForgedToken]
        ELSE IF ~store[id].is_approved \/ ~IsRole(store[id].role)
        THEN [status |-> 401, id |-> NoId, token |-> ForgedToken]
        ELSE [status |-> 200, id |-> id,
              token |-> create_access_token(id, store[id].email,
                                            store[id].role, t)]

\* [status, detail]: logout only runs the guard
logout(token, t) ==
    LET current_user == get_current_user(token, t)
    IN  [status |-> current_user.status, detail |-> current_user.detail]

\* [status, id]: id is the account whose information is returned
get_me(store, token, t) ==
    LET current_user == get_current_user(token, t)
        user_id      == Get(current_user.payload, "sub", NoId)
    IN  IF current_user.status # 200
        THEN [status |-> current_user.status, id |-> NoId]
        ELSE IF user_id = NoId THEN [status |-> 401, id |-> NoId]
        ELSE IF get_user_by_id(store, user_id) = NoId
        THEN [status |-> 404, id |-> NoId]
        ELSE [status |-> 200, id |-> user_id]

-----------------------------------------------------------------------------
(* POST /auth/register *)

reg_password_ok(req) ==
    validate_password(req.password, LocalPart(req.email)).is_valid

reg_email_taken(store, req) == user_exists(store, req.email, NoStr)

reg_username_taken(store, req) ==
    get_user_by_username(store, req.username) # NoId

\* the create_user call of register and what the handler makes of it:
\* TypeError is caught by neither except clause (500 from the framework),
\* an IntegrityError is a SQLAlchemyError (rollback, 500)
reg_create(store, req, salt) ==
    IF ~CallBinds(RegisterKwargs, CreateUserParams)
    THEN [status |-> 500, store |-> store]
    ELSE LET c == create_user(store, req.email, req.username, req.password,
                              salt, "pending", FALSE)
         IN  IF c.ok THEN [status |-> 200, store |-> c.store]
             ELSE [status |-> 500, store |-> store]

\* the whole handler, run to completion: [status, store]
register(store, req, salt) ==
    IF ~reg_password_ok(req) THEN [status |-> 400, store |-> store]
    ELSE IF reg_email_taken(store, req) THEN [status |-> 409, store |-> store]
    ELSE IF reg_username_taken(store, req) THEN [status |-> 409, store |-> store]
    ELSE reg_create(store, req, salt)

-----------------------------------------------------------------------------
(* POST /auth/admin/approve-user, POST /auth/admin/reject-user *)

\* the "Validate role" block without its PENDING test
approve_role_invalid_enum_only(role) == ~IsRole(role)

\* the "Validate role" block of approve_user: TRUE when it raises 400
approve_role_invalid(role) == ~IsRole(role) \/ role = "pending"

\* the "Update user" block of approve_user without the role assignment
approved_row_role_kept(row, t, sub, role, notes) ==
    [row EXCEPT !.is_approved      = TRUE,
                !.approved_at      = t,
                !.registered_date  = t,
                !.approved_by_id   = sub,
                !.is_rejected      = FALSE,
                !.rejection_reason = None,
                !.approval_notes   = notes]

\* the "Update user" block of approve_user dropping a pending reset ticket
approved_row_ticket_dropped(row, t, sub, role, notes) ==
    [row EXCEPT !.is_approved      = TRUE,
                !.approved_at      = t,
                !.registered_date  = t,
                !.approved_by_id   = sub,
                !.role             = role,
                !.is_rejected      = FALSE,
                !.rejection_reason = None,
                !.approval_notes   = notes,
                !.password_reset_token        = NoTicket,
                !.password_reset_expires      = NoTime,
                !.password_reset_requested_at = NoTime]

\* the "Update user" block of approve_user
approved_row(row, t, sub, role, notes) ==
    [row EXCEPT !.is_approved      = TRUE,
                !.approved_at      = t,
                !.registered_date  = t,
                !.approved_by_id   = sub,
                !.role             = role,
                !.is_rejected      = FALSE,
                !.rejection_reason = None,
                !.approval_notes   = notes]

\* the "Update user" block of reject_user without disabling the account
rejected_row_still_active(row, t, sub, rejection_reason) ==
    [row EXCEPT !.is_rejected      = TRUE,
                !.rejected_at      = t,
                !.rejected_by_id   = sub,
                !.rejection_reason = rejection_reason]

\* the "Update user" block of reject_user
rejected_row(row, t, sub, rejection_reason) ==
    [row EXCEPT !.is_rejected      = TRUE,
                !.rejected_at      = t,
                !.rejected_by_id   = sub,
                !.rejection_reason = rejection_reason,
                !.is_active        = FALSE]

\* [status, store]
approve_user(store, token, t, user_id, role, notes, commit_ok) ==
    LET current_user == require_role(AdminRoles, token, t)
        id == get_user_by_id(store, user_id)
    IN  IF current_user.status # 200
        THEN [status |-> current_user.status, store |-> store]
        ELSE IF id = NoId THEN [status |-> 404, store |-> store]
        ELSE IF approve_role_invalid(role) THEN [status |-> 400, store |-> store]
        ELSE IF ~commit_ok THEN [status |-> 500, store |-> store]
        ELSE [status |-> 200,
              store  |-> [store EXCEPT ![id] =
                  approved_row(@, t, Get(current_user.payload, "sub", NoId),
                               role, notes)]]

\* reject_user answering 500 on a failed commit without db.rollback(): the
\* session keeps the changed row
reject_user_no_rollback(store, token, t, user_id, rejection_reason, commit_ok) ==
    LET current_user == require_role(AdminRoles, token, t)
        id == get_user_by_id(store, user_id)
    IN  IF current_user.status # 200
        THEN [status |-> current_user.status, store |-> store]
        ELSE IF id = NoId THEN [status |-> 404, store |-> store]
        ELSE [status |-> IF commit_ok THEN 200 ELSE 500,
              store  |-> [store EXCEPT ![id] =
                  rejected_row(@, t, Get(current_user.payload, "sub", NoId),
                               rejection_reason)]]

\* [status, store]
reject_user(store, token, t, user_id, rejection_reason, commit_ok) ==
    LET current_user == require_role(AdminRoles, token, t)
        id == get_user_by_id(store, user_id)
    IN  IF current_user.status # 200
        THEN [status |-> current_user.status, store |-> store]
        ELSE IF id = NoId THEN [status |-> 404, store |-> store]
        ELSE IF ~commit_ok THEN [status |-> 500, store |-> store]
        ELSE [status |-> 200,
              store  |-> [store EXCEPT ![id] =
                  rejected_row(@, t, Get(current_user.payload, "sub", NoId),
                               rejection_reason)]]

\* get_pending_users filtering on the role column alone
get_pending_users_by_role(store, token, t) ==
    LET current_user == require_role(AdminRoles, token, t)
    IN  IF current_user.status # 200
        THEN [status |-> current_user.status, ids |-> {}]
        ELSE [status |-> 200,
              ids |-> {i \in Ids(store) : store[i].role = "pending"}]

\* GET /auth/admin/pending-users: [status, ids], ids those of the rows listed
get_pending_users(store, token, t) ==
    LET current_user == require_role(AdminRoles, token, t)
    IN  IF current_user.status # 200
        THEN [status |-> current_user.status, ids |-> {}]
        ELSE [status |-> 200,
              ids |-> {i \in Ids(store) : /\ store[i].role = "pending"
                                          /\ store[i].is_approved = FALSE
                                          /\ store[i].is_rejected = FALSE}]

-----------------------------------------------------------------------------
(* POST /auth/admin/educators, PUT /auth/admin/educators/{id} *)

EducatorRoles == {"teacher", "paraeducator", "admin"}

\* [status, store]
create_educator(store, token, t, req, salt) ==
    LET current_user == require_role(AdminRoles, token, t)
    IN  IF current_user.status # 200
        THEN [status |-> current_user.status, store |-> store]
        ELSE IF req.role \notin EducatorRoles THEN [status |-> 400, store |-> store]
        ELSE IF get_user_by_email(store, req.email) # NoId
        THEN [status |-> 400, store |-> store]
        ELSE IF req.username # NoStr /\ get_user_by_username(store, req.username) # NoId
        THEN [status |-> 400, store |-> store]
        ELSE IF ~CallBinds(EducatorKwargs, CreateUserParams)
        THEN [status |-> 500, store |-> store]
        ELSE LET c == create_user(store, req.email, req.username, req.password,
                                  salt, "pending", FALSE)
             IN  IF ~c.ok THEN [status |-> 500, store |-> store]
                 ELSE [status |-> 200,
                       store  |-> [c.store EXCEPT ![c.id] =
                           [@ EXCEPT !.role            = req.role,
                                     !.is_approved     = TRUE,
                                     !.approved_at     = t,
                                     !.registered_date = t,
                                     !.approved_by_id  =
                                         Get(current_user.payload, "sub", NoId)]]]

\* setting an attribute on a mapped row: only a mapped column is persisted
SetAttr(row, name, value) ==
    IF name \in DOMAIN row THEN [row EXCEPT ![name] = value] ELSE row

\* [status, store]; absent request fields are NoStr / None
update_educator(store, token, t, educator_id, req, salt, commit_ok) ==
    LET current_user == require_role(AdminRoles, token, t)
        id == get_user_by_id(store, educator_id)
    IN  IF current_user.status # 200
        THEN [status |-> current_user.status, store |-> store]
        ELSE IF id = NoId THEN [status |-> 404, store |-> store]
        ELSE IF req.role # None /\ req.role \notin EducatorRoles
        THEN [status |-> 400, store |-> store]
        ELSE IF /\ req.email # NoStr
                /\ req.email # store[id].email
                /\ get_user_by_email(store, req.email) # NoId
        THEN [status |-> 400, store |-> store]
        ELSE IF /\ req.username # NoStr
                /\ req.username # store[id].username
                /\ get_user_by_username(store, req.username) # NoId
        THEN [status |-> 400, store |-> store]
        ELSE LET r1 == IF req.email # NoStr
                       THEN SetAttr(store[id], "email", req.email) ELSE store[id]
                 r2 == IF req.role # None THEN SetAttr(r1, "role", req.role) ELSE r1
                 r3 == IF req.username # NoStr
                       THEN SetAttr(r2, "username", req.username) ELSE r2
                 r4 == IF req.password # NoStr
                       THEN SetAttr(r3, "password_hash",
                                    hash_password(req.password, salt))
                       ELSE r3
             IN  IF ~commit_ok THEN [status |-> 500, store |-> store]
                 ELSE [status |-> 200, store |-> [store EXCEPT ![id] = r4]]

\* DELETE /auth/admin/educators/{id}: [status, store]
delete_educator(store, token, t, educator_id, commit_ok) ==
    LET current_user == require_role(AdminRoles, token, t)
        id == get_user_by_id(store, educator_id)
    IN  IF current_user.status # 200
        THEN [status |-> current_user.status, store |-> store]
        ELSE IF id = NoId THEN [status |-> 404, store |-> store]
        ELSE IF ~commit_ok THEN [status |-> 500, store |-> store]
        ELSE [status |-> 200, store |-> [j \in Ids(store) \ {id} |-> store[j]]]

-----------------------------------------------------------------------------
(* PUT /users/{user_id}: app/routers/users.py *)

\* [status, store]: no dependency authenticates the caller; the unique
\* email index turns a duplicate into IntegrityError (rollback, 409)
update_user(store, user_id, req, commit_ok) ==
    LET id == get_user_by_id(store, user_id)
    IN  IF id = NoId THEN [status |-> 404, store |-> store]
        ELSE LET r1 == IF req.email # NoStr
                       THEN SetAttr(store[id], "email", req.email) ELSE store[id]
                 r2 == IF req.role # None THEN SetAttr(r1, "role", req.role) ELSE r1
                 new == [store EXCEPT ![id] = r2]
             IN  IF ~UniqueOk(new) THEN [status |-> 409, store |-> store]
                 ELSE IF ~commit_ok THEN [status |-> 500, store |-> store]
                 ELSE [status |-> 200, store |-> new]

-----------------------------------------------------------------------------
(* POST /auth/forgot-password, POST /auth/reset-password *)

\* os.getenv("PASSWORD_RESET_TOKEN_EXPIRY_HOURS", "1") with the variable unset
PASSWORD_RESET_TOKEN_EXPIRY_HOURS == 1

\* timedelta(hours = h) on the clock, which counts minutes
Hours(h) == 60 * h

MsgResetRequested ==
    "If this email is registered, you will receive a password reset link shortly."
DetailResetPolicy  == "New password does not meet security requirements"
DetailResetInvalid ==
    "Invalid or expired password reset link. Please request a new one."
DetailResetExpired == "Password reset link has expired. Please request a new one."
DetailResetFailed  == "Failed to reset password"
MsgResetDone ==
    "Your password has been successfully reset. You can now login with your new password."

\* db.query(User).filter(User.password_reset_token == token).first()
get_user_by_reset_token(store, token) ==
    IF \E i \in Ids(store) : store[i].password_reset_token = token
    THEN CHOOSE i \in Ids(store) : store[i].password_reset_token = token
    ELSE NoId

\* the unique index on password_reset_token (NULLs do not collide)
UniqueTicketOk(store) ==
    \A i, j \in Ids(store) :
        (i # j /\ store[i].password_reset_token # NoTicket) =>
            store[i].password_reset_token # store[j].password_reset_token

\* the block of forgot_password leaving a ticket already stored in place
ticketed_row_keep_first(row, reset_token, t, expiry_hours) ==
    IF row.password_reset_token # NoTicket THEN row
    ELSE [row EXCEPT !.password_reset_token        = reset_token,
                     !.password_reset_expires      = t + Hours(expiry_hours),
                     !.password_reset_requested_at = t]

\* the "Update user with reset token" block of forgot_password
ticketed_row(row, reset_token, t, expiry_hours) ==
    [row EXCEPT !.password_reset_token        = reset_token,
                !.password_reset_expires      = t + Hours(expiry_hours),
                !.password_reset_requested_at = t]

\* the response every return statement of forgot_password builds
ForgotPasswordResponse(email) ==
    [status |-> 200, message |-> MsgResetRequested, email |-> email]

\* forgot_password answering 500 when the commit or the notification fails
forgot_password_loud(store, email, reset_token, t, expiry_hours, commit_ok, send) ==
    LET id  == get_user_by_email(store, email)
        new == IF id = NoId THEN store
               ELSE [store EXCEPT ![id] =
                        ticketed_row(@, reset_token, t, expiry_hours)]
    IN  IF id = NoId
        THEN [resp |-> ForgotPasswordResponse(email), store |-> store,
              mail |-> {}]
        ELSE IF ~commit_ok \/ ~UniqueTicketOk(new)
        THEN [resp |-> [status |-> 500, message |-> DetailResetFailed,
                        email |-> email],
              store |-> store, mail |-> {}]
        ELSE IF send = "raised"
        THEN [resp |-> [status |-> 500, message |-> DetailResetFailed,
                        email |-> email],
              store |-> new, mail |-> {}]
        ELSE [resp |-> ForgotPasswordResponse(email), store |-> new,
              mail |-> {[to |-> store[id].email, reset_token |-> reset_token,
                         expires_in_hours |-> expiry_hours]}]

\* [resp, store, mail]: reset_token is the value secrets.token_urlsafe drew,
\* send the outcome of send_password_reset_email ("sent" or "raised"); a
\* failed commit is a SQLAlchemyError (rollback), a raising notifier is caught
\* by `except Exception` after the ticket was committed
forgot_password(store, email, reset_token, t, expiry_hours, commit_ok, send) ==
    LET id  == get_user_by_email(store, email)
        new == IF id = NoId THEN store
               ELSE [store EXCEPT ![id] =
                        ticketed_row(@, reset_token, t, expiry_hours)]
    IN  IF id = NoId
        THEN [resp |-> ForgotPasswordResponse(email), store |-> store,
              mail |-> {}]
        ELSE IF ~commit_ok \/ ~UniqueTicketOk(new)
        THEN [resp |-> ForgotPasswordResponse(email), store |-> store,
              mail |-> {}]
        ELSE IF send = "raised"
        THEN [resp |-> ForgotPasswordResponse(email), store |-> new,
              mail |-> {}]
        ELSE [resp |-> ForgotPasswordResponse(email), store |-> new,
              mail |-> {[to |-> store[id].email, reset_token |-> reset_token,
                         expires_in_hours |-> expiry_hours]}]

\* validate_password(request.new_password): no username is passed
reset_password_ok(new_password) == validate_password(new_password, NoStr).is_valid

\* the "Check if token is still valid" test of reset_password: TRUE when it
\* raises
reset_expired(row, t) ==
    \/ row.password_reset_expires = NoTime
    \/ row.password_reset_expires < t

\* the update of reset_password that clears the ticket and keeps the old hash
reset_row_ticket_only(row, new_password, salt) ==
    [row EXCEPT !.password_reset_token        = NoTicket,
                !.password_reset_expires      = NoTime,
                !.password_reset_requested_at = NoTime]

\* the "Update password" and "Clear reset token fields" blocks of
\* reset_password
reset_row(row, new_password, salt) ==
    [row EXCEPT !.hashed_password             = hash_password(new_password, salt),
                !.password_reset_token        = NoTicket,
                !.password_reset_expires      = NoTime,
                !.password_reset_requested_at = NoTime]

\* reset_password clearing a ticket it finds expired
reset_password_clears_expired(store, token, new_password, salt, t, commit_ok) ==
    LET id == get_user_by_reset_token(store, token)
    IN  IF ~reset_password_ok(new_password)
        THEN [status |-> 400, detail |-> DetailResetPolicy, id |-> NoId,
              store |-> store]
        ELSE IF id = NoId
        THEN [status |-> 400, detail |-> DetailResetInvalid, id |-> NoId,
              store |-> store]
        ELSE IF reset_expired(store[id], t)
        THEN [status |-> 400, detail |-> DetailResetExpired, id |-> id,
              store |-> [store EXCEPT ![id] =
                            [@ EXCEPT !.password_reset_token = NoTicket,
                                      !.password_reset_expires = NoTime,
                                      !.password_reset_requested_at = NoTime]]]
        ELSE IF ~commit_ok
        THEN [status |-> 500, detail |-> DetailResetFailed, id |-> id,
              store |-> store]
        ELSE [status |-> 200, detail |-> MsgResetDone, id |-> id,
              store |-> [store EXCEPT ![id] = reset_row(@, new_password, salt)]]

\* [status, detail, id, store]
reset_password(store, token, new_password, salt, t, commit_ok) ==
    LET id == get_user_by_reset_token(store, token)
    IN  IF ~reset_password_ok(new_password)
        THEN [status |-> 400, detail |-> DetailResetPolicy, id |-> NoId,
              store |-> store]
        ELSE IF id = NoId
        THEN [status |-> 400, detail |-> DetailResetInvalid, id |-> NoId,
              store |-> store]
        ELSE IF reset_expired(store[id], t)
        THEN [status |-> 400, detail |-> DetailResetExpired, id |-> id,
              store |-> store]
        ELSE IF ~commit_ok
        THEN [status |-> 500, detail |-> DetailResetFailed, id |-> id,
              store |-> store]
        ELSE [status |-> 200, detail |-> MsgResetDone, id |-> id,
              store |-> [store EXCEPT ![id] = reset_row(@, new_password, salt)]]

-----------------------------------------------------------------------------
(* The state machine *)

\* the ids requests name: the self-registered account and an id no row has
TargetIds == {2, 3}

LoginEmails    == {NoStr, EAdmin, EUser}
LoginUsernames == {NoStr, UUser}
LoginPasswords == {PwAdmin, PwUser}

ApproveRoles  == {"pending", "teacher", "super_admin", "superuser",
                  "counselor"}
ApproveNotes  == {None}
RejectReasons == {"incomplete", "duplicate"}

RegisterRequests ==
    [email : {EUser, EFresh, ESup}, username : {UUser, UFresh},
     password : {PwUser, PwWeak}]

CreateEducatorRequests ==
    [email : {EUser, EFresh}, username : {UFresh}, password : {PwUser},
     role : {"teacher", "pending"}]

NoUpdate == [email |-> NoStr, username |-> NoStr, password |-> NoStr,
             role |-> None]

UpdateEducatorRequests ==
    {[NoUpdate EXCEPT !.role = "admin"],
     [NoUpdate EXCEPT !.role = "pending"],
     [NoUpdate EXCEPT !.email = EAdmin],
     [NoUpdate EXCEPT !.password = PwAdmin, !.username = UUser]}

UpdateUserRequests ==
    [email : {NoStr, EAdmin}, role : {None, "pending", "counselor"}]

RegProcs == {1, 2}

\* reset tickets drawn in one run
MaxTickets == 2

\* reset tickets drawn in one run that also approves and rejects
MaxLifecycleTickets == 1

\* the instants the clock is read at after the start: one minute before, at
\* and after the expiry of a ticket issued at the start, and an hour later
ClockReadings == {59, 60, 61, 120}

ForgotEmails   == {EUser, EFresh}
ResetPasswords == {PwAdmin, PwWeak}
SendOutcomes   == {"sent", "raised"}

RstProcs == {1, 2}
FgProcs  == {1, 2}

\* values the operator may give PASSWORD_RESET_TOKEN_EXPIRY_HOURS: int()
\* accepts any integer literal
ExpiryHoursSettings == {0 - 1, 0, 1}

\* sets a route may hand to require_role: the one every admin route of
\* app/routers/auth.py uses, the one of the docstring, and one of educators
AllowedSets == {AdminRoles, {"admin"}, {"teacher", "paraeducator"}}

\* clock readings of the token lifetime: <<minutes, milliseconds past the
\* minute>>
TokenInstants == {<<0, 500>>, <<29, 500>>, <<30, 0>>, <<30, 500>>, <<31, 0>>}

\* passwords put together from a filler of no character class and an
\* optional part of each class, and the usernames checked against them
Filler(n) == [i \in 1..n |-> "~"]
ValidatePasswords ==
    {Filler(n) \o u \o l \o d \o c :
        n \in {0, MIN_LENGTH - 1, MIN_LENGTH},
        u \in {<<>>, <<"J","O">>},
        l \in {<<>>, <<"j","o">>},
        d \in {<<>>, <<"7">>},
        c \in {<<>>, <<"!">>}}
ValidateUsernames == {NoStr, <<"j","o">>, <<"J","o">>, <<"z","z">>}

NoResetReq == [token |-> NoTicket, new_password |-> NoStr]

NoReq == [email |-> NoStr, username |-> NoStr, password |-> NoStr]

\* the table as deployed: an administrator and a self-registered account,
\* both rows written by db.create_user
SeedStore ==
    LET a == create_user(<<>>, EAdmin, UAdmin, PwAdmin, "s1", "admin", TRUE)
    IN  create_user(a.store, EUser, UUser, PwUser, "s2", "pending", FALSE).store

Init ==
    /\ users = SeedStore
    /\ bearer = ForgedToken
    /\ last = [op |-> "init", status |-> 0, target |-> NoId, arg |-> None]
    /\ now = 0
    /\ approvedAs = [i \in TargetIds |-> None]
    /\ decided = {}
    /\ regpc = [p \in RegProcs |-> "idle"]
    /\ regreq = [p \in RegProcs |-> NoReq]
    /\ regresp = [p \in RegProcs |-> 0]
    /\ tickets = 0
    /\ outbox = {}
    /\ redeemed = [k \in 1..MaxTickets |-> 0]
    /\ rstpc = [p \in RstProcs |-> "idle"]
    /\ rstreq = [p \in RstProcs |-> NoResetReq]
    /\ rstrow = [p \in RstProcs |-> NoId]
    /\ rstresp = [p \in RstProcs |-> 0]
    /\ lastWritten = [i \in Ids(SeedStore) |-> NoTicket]
    /\ fgpc = [p \in FgProcs |-> "idle"]
    /\ fgrow = [p \in FgProcs |-> NoId]
    /\ fgticket = [p \in FgProcs |-> NoTicket]
    /\ nowms = 0
    /\ issued = [at |-> 0, ms |-> 0]

\* the refresh tokens JWTManager.create_refresh_token makes for the deployed
\* accounts at the initial instant
RefreshTokens ==
    {create_refresh_token(i, SeedStore[i].email, 0) : i \in Ids(SeedStore)}

regvars == <<regpc, regreq, regresp>>
rstvars == <<rstpc, rstreq, rstrow, rstresp>>
fgvars == <<fgpc, fgrow, fgticket>>
resetvars == <<tickets, outbox, redeemed, lastWritten, rstvars, fgvars>>
tokvars == <<nowms, issued>>

\* the client stops using its token and presents one signed with another key
Forge ==
    /\ bearer # ForgedToken
    /\ bearer' = ForgedToken
    /\ last' = [op |-> "forge", status |-> 0, target |-> NoId, arg |-> None]
    /\ UNCHANGED <<users, now, approvedAs, decided, regvars, resetvars, tokvars>>

Login ==
    \E email \in LoginEmails, username \in LoginUsernames,
       password \in LoginPasswords :
        LET r == login(users, email, username, password, now)
        IN  /\ bearer' = IF r.status = 200 THEN r.token ELSE bearer
            /\ last' = [op |-> "login", status |-> r.status, target |-> r.id,
                        arg |-> [email |-> email, username |-> username,
                                 password |-> password]]
            /\ issued' = IF r.status = 200 THEN [at |-> now, ms |-> nowms]
                         ELSE issued
            /\ UNCHANGED <<users, now, approvedAs, decided, regvars, resetvars, nowms>>

Register ==
    \E req \in RegisterRequests, salt \in Salts :
        LET r == register(users, req, salt)
        IN  /\ users' = r.store
            /\ last' = [op |-> "register", status |-> r.status,
                        target |-> NoId, arg |-> req]
            /\ UNCHANGED <<bearer, now, approvedAs, decided, regvars, resetvars, tokvars>>

ApproveUser ==
    \E user_id \in TargetIds, role \in ApproveRoles, notes \in ApproveNotes,
       commit_ok \in BOOLEAN :
        LET r == approve_user(users, bearer, now, user_id, role, notes, commit_ok)
        IN  /\ users' = r.store
            /\ approvedAs' = IF r.status = 200
                             THEN [approvedAs EXCEPT ![user_id] = role]
                             ELSE approvedAs
            /\ decided' = IF r.status = 200 THEN decided \cup {user_id}
                          ELSE decided
            /\ last' = [op |-> "approve", status |-> r.status,
                        target |-> user_id, arg |-> role]
            /\ UNCHANGED <<bearer, now, regvars, resetvars, tokvars>>

RejectUser ==
    \E user_id \in TargetIds, reason \in RejectReasons, commit_ok \in BOOLEAN :
        LET r == reject_user(users, bearer, now, user_id, reason, commit_ok)
        IN  /\ users' = r.store
            /\ decided' = IF r.status = 200 THEN decided \cup {user_id}
                          ELSE decided
            /\ last' = [op |-> "reject", status |-> r.status,
                        target |-> user_id, arg |-> reason]
            /\ UNCHANGED <<bearer, now, approvedAs, regvars, resetvars, tokvars>>

CreateEducator ==
    \E req \in CreateEducatorRequests, salt \in Salts :
        LET r == create_educator(users, bearer, now, req, salt)
        IN  /\ users' = r.store
            /\ last' = [op |-> "create_educator", status |-> r.status,
                        target |-> NoId, arg |-> req.role]
            /\ UNCHANGED <<bearer, now, approvedAs, decided, regvars, resetvars, tokvars>>

UpdateEducator ==
    \E educator_id \in TargetIds, req \in UpdateEducatorRequests,
       salt \in Salts, commit_ok \in BOOLEAN :
        LET r == update_educator(users, bearer, now, educator_id, req, salt,
                                 commit_ok)
        IN  /\ users' = r.store
            /\ last' = [op |-> "update_educator", status |-> r.status,
                        target |-> educator_id, arg |-> req]
            /\ UNCHANGED <<bearer, now, approvedAs, decided, regvars, resetvars, tokvars>>

UpdateUser ==
    \E user_id \in TargetIds, req \in UpdateUserRequests, commit_ok \in BOOLEAN :
        LET r == update_user(users, user_id, req, commit_ok)
        IN  /\ users' = r.store
            /\ last' = [op |-> "update_user", status |-> r.status,
                        target |-> user_id, arg |-> req.role]
            /\ UNCHANGED <<bearer, now, approvedAs, decided, regvars, resetvars, tokvars>>

\* register as concurrent requests run it: one step per database call
RegStart(p) ==
    /\ regpc[p] = "idle"
    /\ \E req \in RegisterRequests :
        /\ regreq' = [regreq EXCEPT ![p] = req]
        /\ IF ~reg_password_ok(req)
           THEN /\ regpc' = [regpc EXCEPT ![p] = "done"]
                /\ regresp' = [regresp EXCEPT ![p] = 400]
           ELSE IF reg_email_taken(users, req)
           THEN /\ regpc' = [regpc EXCEPT ![p] = "done"]
                /\ regresp' = [regresp EXCEPT ![p] = 409]
           ELSE /\ regpc' = [regpc EXCEPT ![p] = "username"]
                /\ UNCHANGED regresp
    /\ UNCHANGED <<users, bearer, last, now, approvedAs, decided, resetvars, tokvars>>

RegUsername(p) ==
    /\ regpc[p] = "username"
    /\ IF reg_username_taken(users, regreq[p])
       THEN /\ regpc' = [regpc EXCEPT ![p] = "done"]
            /\ regresp' = [regresp EXCEPT ![p] = 409]
       ELSE /\ regpc' = [regpc EXCEPT ![p] = "create"]
            /\ UNCHANGED regresp
    /\ UNCHANGED <<users, bearer, last, now, approvedAs, decided, regreq, resetvars, tokvars>>

RegCreate(p) ==
    /\ regpc[p] = "create"
    /\ \E salt \in Salts :
        LET r == reg_create(users, regreq[p], salt)
        IN  /\ users' = r.store
            /\ regresp' = [regresp EXCEPT ![p] = r.status]
    /\ regpc' = [regpc EXCEPT ![p] = "done"]
    /\ UNCHANGED <<bearer, last, now, approvedAs, decided, regreq, resetvars, tokvars>>

\* time passes between requests
Tick ==
    /\ \E t \in ClockReadings : t > now /\ now' = t
    /\ last' = [op |-> "tick", status |-> 0, target |-> NoId, arg |-> None]
    /\ UNCHANGED <<users, bearer, approvedAs, decided, regvars, resetvars, tokvars>>

\* POST /auth/forgot-password; secrets.token_urlsafe(32) returns a value no
\* earlier call returned
ForgotPasswordWith(expiry_hours) ==
    \E email \in ForgotEmails, commit_ok \in BOOLEAN, send \in SendOutcomes :
        LET id == get_user_by_email(users, email)
            drawn == id # NoId
            r == forgot_password(users, email, tickets + 1, now, expiry_hours,
                                 commit_ok, send)
        IN  /\ drawn => tickets < MaxTickets
            /\ tickets' = IF drawn THEN tickets + 1 ELSE tickets
            /\ users' = r.store
            /\ outbox' = outbox \cup r.mail
            /\ lastWritten' = IF r.store # users
                              THEN [lastWritten EXCEPT ![id] = tickets + 1]
                              ELSE lastWritten
            /\ last' = [op |-> "forgot", status |-> r.resp.status,
                        target |-> id,
                        arg |-> [email |-> email, resp |-> r.resp,
                                 commit_ok |-> commit_ok, send |-> send]]
            /\ UNCHANGED <<bearer, now, approvedAs, decided, regvars, redeemed, rstvars,
                           fgvars, tokvars>>

\* with PASSWORD_RESET_TOKEN_EXPIRY_HOURS unset
ForgotPassword == ForgotPasswordWith(PASSWORD_RESET_TOKEN_EXPIRY_HOURS)

\* with PASSWORD_RESET_TOKEN_EXPIRY_HOURS set by the operator
ForgotPasswordConfigured ==
    \E expiry_hours \in ExpiryHoursSettings : ForgotPasswordWith(expiry_hours)

\* POST /auth/reset-password
ResetPassword ==
    \E token \in 1..MaxTickets, new_password \in ResetPasswords,
       salt \in Salts, commit_ok \in BOOLEAN :
        LET r == reset_password(users, token, new_password, salt, now, commit_ok)
        IN  /\ users' = r.store
            /\ redeemed' = IF r.status = 200
                           THEN [redeemed EXCEPT ![token] = @ + 1]
                           ELSE redeemed
            /\ last' = [op |-> "reset", status |-> r.status, target |-> r.id,
                        arg |-> [token |-> token, new_password |-> new_password,
                                 commit_ok |-> commit_ok, detail |-> r.detail]]
            /\ UNCHANGED <<bearer, now, approvedAs, decided, regvars, tickets, outbox,
                           lastWritten, rstvars, fgvars, tokvars>>

\* reset_password as requests served by two server processes run it against
\* the shared database: the query with the checks made on the loaded row,
\* then the UPDATE ... WHERE id = ? of the commit
RstQuery(p) ==
    /\ rstpc[p] = "idle"
    /\ \E token \in 1..MaxTickets, new_password \in ResetPasswords :
        LET id == get_user_by_reset_token(users, token)
            refused == \/ ~reset_password_ok(new_password)
                       \/ id = NoId
                       \/ reset_expired(users[id], now)
        IN  /\ rstreq' = [rstreq EXCEPT ![p] =
                             [token |-> token, new_password |-> new_password]]
            /\ rstrow' = [rstrow EXCEPT ![p] = IF refused THEN NoId ELSE id]
            /\ rstpc' = [rstpc EXCEPT ![p] = IF refused THEN "done" ELSE "commit"]
            /\ rstresp' = [rstresp EXCEPT ![p] = IF refused THEN 400 ELSE 0]
    /\ UNCHANGED <<users, bearer, last, now, approvedAs, decided, regvars, tickets,
                   outbox, redeemed, lastWritten, fgvars, tokvars>>

RstCommit(p) ==
    /\ rstpc[p] = "commit"
    /\ \E salt \in Salts, commit_ok \in BOOLEAN :
        /\ users' = IF commit_ok
                    THEN [users EXCEPT ![rstrow[p]] =
                             reset_row(@, rstreq[p].new_password, salt)]
                    ELSE users
        /\ rstresp' = [rstresp EXCEPT ![p] = IF commit_ok THEN 200 ELSE 500]
        /\ redeemed' = IF commit_ok
                       THEN [redeemed EXCEPT ![rstreq[p].token] = @ + 1]
                       ELSE redeemed
    /\ rstpc' = [rstpc EXCEPT ![p] = "done"]
    /\ UNCHANGED <<bearer, last, now, approvedAs, decided, regvars, tickets, outbox,
                   rstreq, rstrow, lastWritten, fgvars, tokvars>>

\* forgot_password as requests served by two server processes run it: the
\* lookup of the account, then the commit of the ticket and the mail
FgLoad(p) ==
    /\ fgpc[p] = "idle"
    /\ \E email \in ForgotEmails :
        LET id == get_user_by_email(users, email)
        IN  /\ id # NoId => tickets < MaxTickets
            /\ tickets' = IF id # NoId THEN tickets + 1 ELSE tickets
            /\ fgrow' = [fgrow EXCEPT ![p] = id]
            /\ fgticket' = [fgticket EXCEPT ![p] =
                                IF id # NoId THEN tickets + 1 ELSE NoTicket]
            /\ fgpc' = [fgpc EXCEPT ![p] = IF id # NoId THEN "commit" ELSE "done"]
    /\ UNCHANGED <<users, bearer, last, now, approvedAs, decided, regvars, outbox,
                   redeemed, lastWritten, rstvars, tokvars>>

FgCommit(p) ==
    /\ fgpc[p] = "commit"
    /\ \E commit_ok \in BOOLEAN, send \in SendOutcomes :
        LET new == [users EXCEPT ![fgrow[p]] =
                       ticketed_row(@, fgticket[p], now,
                                    PASSWORD_RESET_TOKEN_EXPIRY_HOURS)]
            ok  == commit_ok /\ UniqueTicketOk(new)
        IN  /\ users' = IF ok THEN new ELSE users
            /\ lastWritten' = IF ok
                              THEN [lastWritten EXCEPT ![fgrow[p]] = fgticket[p]]
                              ELSE lastWritten
            /\ outbox' = IF ok /\ send = "sent"
                         THEN outbox \cup
                              {[to |-> users[fgrow[p]].email,
                                reset_token |-> fgticket[p],
                                expires_in_hours |->
                                    PASSWORD_RESET_TOKEN_EXPIRY_HOURS]}
                         ELSE outbox
    /\ fgpc' = [fgpc EXCEPT ![p] = "done"]
    /\ UNCHANGED <<bearer, last, now, approvedAs, decided, regvars, tickets, redeemed,
                   rstvars, fgrow, fgticket, tokvars>>

Next ==
    \/ Forge
    \/ Login
    \/ Register
    \/ ApproveUser
    \/ RejectUser
    \/ CreateEducator
    \/ UpdateEducator
    \/ UpdateUser

\* the lifecycle at one instant: the clock stays at its initial reading, so
\* no token issued here has expired
Spec == Init /\ [][Next]_vars

NextReg ==
    \E p \in RegProcs :
        \/ RegStart(p)
        \/ RegUsername(p)
        \/ RegCreate(p)

\* two register requests in flight against the deployed table
SpecReg == Init /\ [][NextReg]_vars

NextReset ==
    \/ Tick
    \/ ForgotPassword
    \/ ResetPassword

\* the password-reset flow, one request at a time, with time passing
SpecReset == Init /\ [][NextReset]_vars

NextResetRace ==
    \/ ForgotPassword
    \/ \E p \in RstProcs :
          \/ RstQuery(p)
          \/ RstCommit(p)

\* tickets being issued and two reset requests in flight on separate server
\* processes
SpecResetRace == Init /\ [][NextResetRace]_vars

NextResetConfig ==
    \/ Tick
    \/ ForgotPasswordConfigured
    \/ ResetPassword

\* the password-reset flow under the expiry settings an operator may choose
SpecResetConfig == Init /\ [][NextResetConfig]_vars

\* time passes between requests, by less than a second or by minutes
TokenTick ==
    /\ \E inst \in TokenInstants :
          /\ \/ inst[1] > now
             \/ inst[1] = now /\ inst[2] > nowms
          /\ now' = inst[1]
          /\ nowms' = inst[2]
    /\ last' = [op |-> "tick", status |-> 0, target |-> NoId, arg |-> None]
    /\ UNCHANGED <<users, bearer, approvedAs, decided, regvars, resetvars, issued>>

\* POST /auth/logout with the client's token or a refresh token
Logout ==
    \E token \in {bearer} \cup RefreshTokens :
        LET r == logout(token, now)
        IN  /\ last' = [op |-> "logout", status |-> r.status, target |-> NoId,
                        arg |-> [token |-> token, detail |-> r.detail]]
            /\ UNCHANGED <<users, bearer, now, approvedAs, decided, regvars, resetvars,
                           tokvars>>

\* GET /auth/me with the client's token or a refresh token
Me ==
    \E token \in {bearer} \cup RefreshTokens :
        LET r == get_me(users, token, now)
        IN  /\ last' = [op |-> "me", status |-> r.status, target |-> r.id,
                        arg |-> [token |-> token]]
            /\ UNCHANGED <<users, bearer, now, approvedAs, decided, regvars, resetvars,
                           tokvars>>

\* POST /auth/refresh with the client's token or a refresh token; the client
\* goes on with the access token of a 200 response
Refresh ==
    \E token \in {bearer} \cup RefreshTokens :
        LET r == refresh_token(users, token, now)
        IN  /\ bearer' = IF r.status = 200 THEN r.token ELSE bearer
            /\ issued' = IF r.status = 200 THEN [at |-> now, ms |-> nowms]
                         ELSE issued
            /\ last' = [op |-> "refresh", status |-> r.status, target |-> r.id,
                        arg |-> [token |-> token]]
            /\ UNCHANGED <<users, now, approvedAs, decided, regvars, resetvars, nowms>>

\* a route guarded by require_role(*allowed_roles)
RequireRole ==
    \E allowed_roles \in AllowedSets :
        LET r == require_role(allowed_roles, bearer, now)
        IN  /\ last' = [op |-> "require_role", status |-> r.status,
                        target |-> NoId, arg |-> allowed_roles]
            /\ UNCHANGED <<users, bearer, now, approvedAs, decided, regvars, resetvars,
                           tokvars>>

\* DELETE /auth/admin/educators/{educator_id}
DeleteEducator ==
    \E educator_id \in TargetIds, commit_ok \in BOOLEAN :
        LET r == delete_educator(users, bearer, now, educator_id, commit_ok)
        IN  /\ users' = r.store
            /\ last' = [op |-> "delete", status |-> r.status,
                        target |-> educator_id, arg |-> commit_ok]
            /\ UNCHANGED <<bearer, now, approvedAs, decided, regvars, resetvars, tokvars>>

\* validate_password(password, username) on its own
ValidatePassword ==
    \E password \in ValidatePasswords, username \in ValidateUsernames :
        LET r == validate_password(password, username)
        IN  /\ last' = [op |-> "validate",
                        status |-> IF r.is_valid THEN 200 ELSE 400,
                        target |-> NoId,
                        arg |-> [password |-> password, username |-> username,
                                 is_valid |-> r.is_valid, errors |-> r.errors]]
            /\ UNCHANGED <<users, bearer, now, approvedAs, decided, regvars, resetvars,
                           tokvars>>

NextForgotRace ==
    \/ Tick
    \/ ResetPassword
    \/ \E p \in FgProcs :
          \/ FgLoad(p)
          \/ FgCommit(p)

\* two forgot-password requests in flight on separate server processes,
\* with redemptions and time passing in between
SpecForgotRace == Init /\ [][NextForgotRace]_vars

NextToken ==
    \/ Login
    \/ TokenTick
    \/ Logout
    \/ Me
    \/ Refresh

\* tokens over their lifetime: logins, guarded requests and refreshes with
\* time passing in between
SpecToken == Init /\ [][NextToken]_vars

NextGuard ==
    \/ Login
    \/ ApproveUser
    \/ RejectUser
    \/ DeleteEducator
    \/ Logout
    \/ Me
    \/ RequireRole
    \/ Refresh

\* tokens against a changing table, at one instant: accounts are approved
\* with a role, rejected and deleted while tokens issued earlier are in use
SpecGuard == Init /\ [][NextGuard]_vars

NextStale ==
    \/ Login
    \/ TokenTick
    \/ ApproveUser
    \/ RejectUser
    \/ DeleteEducator
    \/ Logout
    \/ RequireRole

\* tokens against a changing table over their lifetime
SpecStale == Init /\ [][NextStale]_vars

\* GET /auth/admin/pending-users
PendingUsers ==
    LET r == get_pending_users(users, bearer, now)
    IN  /\ last' = [op |-> "pending", status |-> r.status, target |-> NoId,
                    arg |-> r.ids]
        /\ UNCHANGED <<users, bearer, now, approvedAs, decided, regvars,
                       resetvars, tokvars>>

NextPending ==
    \/ Login
    \/ ApproveUser
    \/ RejectUser
    \/ PendingUsers

\* the administrator approving, rejecting and listing the pending accounts
SpecPending == Init /\ [][NextPending]_vars

\* POST /auth/forgot-password while few tickets have been drawn
ForgotPasswordFew ==
    /\ tickets < MaxLifecycleTickets
    /\ ForgotPassword

NextLifecycleReset ==
    \/ Login
    \/ ApproveUser
    \/ RejectUser
    \/ ForgotPasswordFew
    \/ ResetPassword

\* approvals and rejections by the administrator while reset tickets are
\* requested and redeemed, at one instant
SpecLifecycleReset == Init /\ [][NextLifecycleReset]_vars

\* the password policy applied to one password after another
SpecValidate == Init /\ [][ValidatePassword]_vars

-----------------------------------------------------------------------------
(* Properties of the account lifecycle *)

\* what a claim may say of the table without going through the handlers
EmailHeld(store, email) == \E i \in Ids(store) : store[i].email = email
UsernameHeld(store, username) == \E i \in Ids(store) : store[i].username = username

\* the role claim of the token presented with the request, when it verifies
PresentedRole ==
    IF get_current_user(bearer, now).status = 200 THEN bearer.payload.role
    ELSE None

RowChanged(i) ==
    \/ users'[i].role # users[i].role
    \/ users'[i].is_approved # users[i].is_approved
    \/ users'[i].is_rejected # users[i].is_rejected

\* C1: every account whose role is pending has is_approved = false.
C1_PendingNotApproved ==
    \A i \in Ids(users) : users[i].role = "pending" => ~users[i].is_approved

\* C2: no account is approved and rejected at the same time.
C2_NotApprovedAndRejected ==
    \A i \in Ids(users) : ~(users[i].is_approved /\ users[i].is_rejected)

\* C3: an account's role and approval / rejection flags change only in an
\* approve or reject step taken with an admin or super_admin token.
C3_OnlyAdminApproveReject ==
    [][\A i \in Ids(users) \cap Ids(users') :
          RowChanged(i) =>
              /\ last'.op \in {"approve", "reject"}
              /\ PresentedRole \in AdminRoles]_vars

C5_RegisterCreatesPending ==
    [][(/\ last'.op = "register"
        /\ reg_password_ok(last'.arg)
        /\ ~EmailHeld(users, last'.arg.email)
        /\ ~UsernameHeld(users, last'.arg.username)) =>
          /\ last'.status = 200
          /\ \E i \in Ids(users') \ Ids(users) :
                /\ Ids(users') = Ids(users) \cup {i}
                /\ users'[i].email = last'.arg.email
                /\ users'[i].role = "pending"
                /\ ~users'[i].is_approved
                /\ verify_password(last'.arg.password,
                                   users'[i].hashed_password)]_vars

\* C6 as stated: a register call whose email or username is already held
\* answers 409 and leaves the table unchanged.
C6_DuplicateConflict ==
    [][(/\ last'.op = "register"
        /\ \/ EmailHeld(users, last'.arg.email)
           \/ UsernameHeld(users, last'.arg.username)) =>
          (last'.status = 409 /\ users' = users)]_vars

\* C6 amended: a register call with a policy-compliant password whose email
\* or username is already held answers 409 and leaves the table unchanged; a
\* register call with a held email or username never changes the table.
C6_DuplicateConflictValidPassword ==
    [][(/\ last'.op = "register"
        /\ \/ EmailHeld(users, last'.arg.email)
           \/ UsernameHeld(users, last'.arg.username)) =>
          /\ users' = users
          /\ reg_password_ok(last'.arg) => last'.status = 409]_vars

\* a register call with a compliant password and a held email got 409
C6_Witness ==
    /\ last.op = "register"
    /\ last.status = 409
    /\ EmailHeld(users, last.arg.email)
    /\ reg_password_ok(last.arg)

\* C7: of two concurrent register calls with the same email or username
\* (policy-compliant, not held before), exactly one creates the account and
\* the other answers 409; no two rows share an email or username.
C7_OneWinnerOneConflict ==
    (/\ \A p \in RegProcs : regpc[p] = "done" /\ reg_password_ok(regreq[p])
     /\ \/ regreq[1].email = regreq[2].email
        \/ regreq[1].username = regreq[2].username
     /\ \A p \in RegProcs :
           /\ ~EmailHeld(SeedStore, regreq[p].email)
           /\ ~UsernameHeld(SeedStore, regreq[p].username)) =>
        /\ {regresp[1], regresp[2]} = {200, 409}
        /\ UniqueOk(users)
        /\ Cardinality(Ids(users)) = Cardinality(Ids(SeedStore)) + 1

\* C8, first half: right after a successful approve the account is approved
\* with the target role.
ApproveSetsRole ==
    (last.op = "approve" /\ last.status = 200) =>
        /\ users[last.target].is_approved
        /\ users[last.target].role = last.arg

\* C8 as stated: after a successful approve(account, target_role) the account
\* is approved with that role and any later login of the account issues a
\* token whose role claim is target_role.
C8_LaterLoginHasTargetRole ==
    /\ ApproveSetsRole
    /\ (/\ last.op = "login"
        /\ last.status = 200
        /\ last.target \in TargetIds
        /\ approvedAs[last.target] # None) =>
           bearer.payload.role = approvedAs[last.target]

\* C8 amended: after a successful approve(account, target_role) the account
\* is approved with that role, and a later login of the account made while
\* its stored role is still target_role issues a token whose role claim is
\* target_role.
C8_LaterLoginHasStoredTargetRole ==
    /\ ApproveSetsRole
    /\ (/\ last.op = "login"
        /\ last.status = 200
        /\ last.target \in TargetIds
        /\ approvedAs[last.target] # None
        /\ users[last.target].role = approvedAs[last.target]) =>
           bearer.payload.role = approvedAs[last.target]

\* account 2 was approved as teacher and then logged in
C8_Witness ==
    /\ last.op = "login"
    /\ last.status = 200
    /\ last.target = 2
    /\ approvedAs[2] = "teacher"
    /\ users[2].role = "teacher"
    /\ bearer.payload.role = "teacher"

\* C9: an authorised approve answers 404 for an unknown account id and 400
\* for a target role that is pending or not a known role (the id is looked up
\* first); in each of these failures no row changes.
C9_ApproveNotFoundInvalid ==
    [][(last'.op = "approve" /\ PresentedRole \in AdminRoles \cup {"superuser"}) =>
          /\ last'.target \notin Ids(users) => last'.status = 404
          /\ (/\ last'.target \in Ids(users)
              /\ (last'.arg = "pending" \/ last'.arg \notin RoleValues)) =>
                 last'.status = 400
          /\ last'.status \in {400, 404} => users' = users]_vars

\* an authorised approve of an existing account as pending got 400
C9_Witness ==
    /\ last.op = "approve"
    /\ last.status = 400
    /\ last.arg = "pending"
    /\ last.target \in Ids(users)

\* C10: after a successful approve the account's approved_by is the id of the
\* admin whose login issued the presented token, and after a successful
\* reject its rejected_by is that id.
C10_ActorRecorded ==
    /\ (last.op = "approve" /\ last.status = 200) =>
           users[last.target].approved_by_id = bearer.payload.user_id
    /\ (last.op = "reject" /\ last.status = 200) =>
           users[last.target].rejected_by_id = bearer.payload.user_id

\* the caller's token passes the guard of the admin endpoints
Authorised == PresentedRole \in AdminRoles \cup {"superuser"}

\* C11: after a successful reject(account, reason) the account is rejected,
\* inactive and carries the reason; an authorised reject of an unknown id
\* answers 404, and a reject of an unknown id never changes the table.
C11_RejectEffect ==
    [][last'.op = "reject" =>
          /\ last'.status = 200 =>
                /\ last'.target \in Ids(users)
                /\ users'[last'.target].is_rejected
                /\ ~users'[last'.target].is_active
                /\ users'[last'.target].rejection_reason = last'.arg
          /\ (Authorised /\ last'.target \notin Ids(users)) =>
                 last'.status = 404
          /\ last'.target \notin Ids(users) => users' = users]_vars

\* account 2 was active and has just been rejected with a reason
C11_Witness ==
    /\ last.op = "reject"
    /\ last.status = 200
    /\ last.target = 2
    /\ users[2].is_rejected
    /\ ~users[2].is_active
    /\ users[2].rejection_reason = "duplicate"

\* C12: a successful approve of a rejected account leaves is_rejected false
\* and rejection_reason, rejected_at and rejected_by all null.
C12_ApproveClearsRejection ==
    [][(/\ last'.op = "approve"
        /\ last'.status = 200
        /\ users[last'.target].is_rejected) =>
          /\ ~users'[last'.target].is_rejected
          /\ users'[last'.target].rejection_reason = None
          /\ users'[last'.target].rejected_at = NoTime
          /\ users'[last'.target].rejected_by_id = NoId]_vars

\* C13: no login succeeds for an account that has been rejected and not
\* re-approved since (is_rejected is set by reject and cleared by approve
\* only).
C13_RejectedCannotLogin ==
    (last.op = "login" /\ last.status = 200) => ~users[last.target].is_rejected

\* C14: whatever an account's approval, rejection or active state,
\* authenticate with its email returns the account when the password
\* verifies against its hash and no match when it does not.
C14_AuthenticateIgnoresFlags ==
    \A i \in Ids(users), password \in LoginPasswords :
        authenticate_user(users, users[i].email, password) =
            IF Digest(password, users[i].hashed_password.salt)
                   = users[i].hashed_password.digest
            THEN i ELSE NoId

\* a rejected, inactive account has just logged in with its password
C14_Witness ==
    /\ last.op = "login"
    /\ last.status = 200
    /\ last.target = 2
    /\ users[2].is_rejected
    /\ ~users[2].is_active

\* the account a login request names: by email when one is supplied, by
\* username otherwise
NamedAccount(store, req) ==
    IF req.email # NoStr
    THEN {i \in Ids(store) : store[i].email = req.email}
    ELSE {i \in Ids(store) : store[i].username = req.username}

\* C15: a login that names an existing account by its email, or by its
\* username alone, and carries its correct password succeeds for that
\* account; with both supplied the email decides.
C15_EitherIdentifier ==
    [][last'.op = "login" =>
          \A i \in NamedAccount(users, last'.arg) :
              Digest(last'.arg.password, users[i].hashed_password.salt)
                  = users[i].hashed_password.digest =>
                  (last'.status = 200 /\ last'.target = i)]_vars

\* the table without one of its rows
Without(store, i) == [j \in Ids(store) \ {i} |-> store[j]]

\* C16: for the table and the table without the named account, a login with
\* that account's email and a password that does not match yields the same
\* status, 401, and the same message.
C16_FailedLoginIndistinguishable ==
    \A i \in Ids(users), username \in LoginUsernames,
       password \in LoginPasswords :
        Digest(password, users[i].hashed_password.salt)
            # users[i].hashed_password.digest =>
            LET with    == login(users, users[i].email, username, password, now)
                without == login(Without(users, i), users[i].email, username,
                                 password, now)
            IN  /\ with.status = 401
                /\ without.status = 401
                /\ with.detail = without.detail

\* a login with a held email and a wrong password was answered 401
C16_Witness ==
    /\ last.op = "login"
    /\ last.status = 401
    /\ last.arg.email = EUser
    /\ last.arg.password = PwAdmin
    /\ EmailHeld(users, EUser)

\* C17: for a given email, forgot_password answers with the same generic
\* success response whether or not an account holds the email, whether or
\* not the commit of the ticket fails and whether or not the notification
\* service fails.
C17_ForgotResponseGeneric ==
    \A email \in ForgotEmails, i \in Ids(users),
       c1 \in BOOLEAN, c2 \in BOOLEAN,
       s1 \in SendOutcomes, s2 \in SendOutcomes :
        users[i].email = email =>
            LET with    == forgot_password(users, email, tickets + 1, now,
                               PASSWORD_RESET_TOKEN_EXPIRY_HOURS, c1, s1)
                without == forgot_password(Without(users, i), email,
                               tickets + 1, now,
                               PASSWORD_RESET_TOKEN_EXPIRY_HOURS, c2, s2)
            IN  /\ with.resp = without.resp
                /\ with.resp.status = 200
                /\ with.resp.message = MsgResetRequested
                /\ with.resp.email = email

\* a ticket was stored for account 2 and the notification service raised:
\* nothing was mailed and the answer was the generic success
C17_Witness ==
    /\ last.op = "forgot"
    /\ last.target = 2
    /\ last.arg.commit_ok
    /\ last.arg.send = "raised"
    /\ users[2].password_reset_token # NoTicket
    /\ outbox = {}
    /\ last.arg.resp.status = 200

\* the accounts holding a ticket
Holders(store, token) ==
    {i \in Ids(store) : store[i].password_reset_token = token}

\* C18: when the store accepts the commit, reset_password fails and changes
\* nothing if the password is policy-invalid, or no account holds the ticket,
\* or the holder's stored expiry is null or <= the current time, and it
\* succeeds otherwise; so a redemption at exactly the expiry instant fails.
C18_ResetFailsIffInvalid ==
    [][(last'.op = "reset" /\ last'.arg.commit_ok) =>
          LET cause ==
                \/ ~validate_password(last'.arg.new_password, NoStr).is_valid
                \/ Holders(users, last'.arg.token) = {}
                \/ \E i \in Holders(users, last'.arg.token) :
                      \/ users[i].password_reset_expires = NoTime
                      \/ users[i].password_reset_expires <= now
          IN  /\ cause => (last'.status # 200 /\ users' = users)
              /\ ~cause => last'.status = 200]_vars

\* C19: a successful reset_password stores a hash of the new password and
\* clears ticket, expiry and requested_at in the same step; a failed one,
\* a failed commit included, changes nothing; no step clears a ticket
\* without storing the new credential or stores a credential and keeps the
\* ticket.
C19_ResetAtomic ==
    [][last'.op = "reset" =>
          /\ last'.status = 200 =>
                /\ last'.target \in Holders(users, last'.arg.token)
                /\ verify_password(last'.arg.new_password,
                                   users'[last'.target].hashed_password)
                /\ users'[last'.target].password_reset_token = NoTicket
                /\ users'[last'.target].password_reset_expires = NoTime
                /\ users'[last'.target].password_reset_requested_at = NoTime
          /\ last'.status # 200 => users' = users
          /\ \A i \in Ids(users) :
                /\ (/\ users[i].password_reset_token # NoTicket
                    /\ users'[i].password_reset_token = NoTicket) =>
                       verify_password(last'.arg.new_password,
                                       users'[i].hashed_password)
                /\ users'[i].hashed_password # users[i].hashed_password =>
                       users'[i].password_reset_token = NoTicket]_vars

\* account 2 redeemed its ticket: new credential stored, ticket cleared
C19_Witness ==
    /\ last.op = "reset"
    /\ last.status = 200
    /\ last.target = 2
    /\ users[2].password_reset_token = NoTicket
    /\ verify_password(PwAdmin, users[2].hashed_password)
    /\ ~verify_password(PwUser, users[2].hashed_password)

\* C20: whatever the interleaving of the reset requests presenting it, a
\* ticket lets at most one request succeed in changing the password.
C20_TicketSingleUse ==
    \A k \in DOMAIN redeemed : redeemed[k] <= 1

\* C21: once forgot-password requests for an account have committed, in
\* sequence or interleaved, the account holds the ticket committed last and
\* no other (until it is redeemed), and every other ticket drawn so far is
\* refused at redemption with the invalid-or-expired answer.
C21_LastTicketWins ==
    /\ \A i \in Ids(users) :
          /\ users[i].password_reset_token \in {NoTicket, lastWritten[i]}
          /\ (lastWritten[i] # NoTicket /\ redeemed[lastWritten[i]] = 0) =>
                 users[i].password_reset_token = lastWritten[i]
    /\ \A k \in 1..tickets :
          (\A i \in Ids(users) : lastWritten[i] # k) =>
              LET r == reset_password(users, k, PwAdmin, "s1", now, TRUE)
              IN  r.status = 400 /\ r.detail = DetailResetInvalid /\ r.store = users

\* two interleaved requests both committed and mailed their ticket; the one
\* that drew its ticket first committed last, and its ticket is the one held
C21_Witness ==
    /\ \A p \in FgProcs : fgpc[p] = "done"
    /\ Cardinality(outbox) = 2
    /\ lastWritten[2] = 1
    /\ users[2].password_reset_token = 1

\* C22: reset_password answers a ticket no account holds and a ticket whose
\* stored expiry has passed with the same status and the same message.
C22_UnknownAndExpiredAlike ==
    \A k1 \in 1..MaxTickets, k2 \in 1..MaxTickets :
        (/\ Holders(users, k1) = {}
         /\ \E i \in Holders(users, k2) :
               /\ users[i].password_reset_expires # NoTime
               /\ users[i].password_reset_expires < now) =>
            LET unknown == reset_password(users, k1, PwAdmin, "s1", now, TRUE)
                expired == reset_password(users, k2, PwAdmin, "s1", now, TRUE)
            IN  /\ unknown.status = expired.status
                /\ unknown.detail = expired.detail

\* C23: whatever expiry-hours value the operator configured, an account with
\* a reset ticket has an expiry, and it is strictly later than requested_at.
C23_ExpiryAfterIssuance ==
    \A i \in Ids(users) :
        users[i].password_reset_token # NoTicket =>
            /\ users[i].password_reset_expires # NoTime
            /\ users[i].password_reset_expires
                   > users[i].password_reset_requested_at

-----------------------------------------------------------------------------
(* Properties of tokens *)

\* a clock reading in milliseconds
Instant(minutes, ms) == 60000 * minutes + ms

\* the client's token is the access token login signed at the instant issued
LoginToken == bearer.key = SECRET_KEY /\ bearer.payload.type = "access"

SignedUnexpired(token) ==
    /\ token.key = SECRET_KEY
    /\ Instant(now, nowms) < Instant(token.payload.exp, 0)

\* C25: the guard answers 401 to every validly signed, unexpired refresh
\* token, and the refresh endpoint answers 401 to every validly signed,
\* unexpired access token and issues nothing.
C25_TokenKindEnforced ==
    [][/\ (/\ last'.op \in {"logout", "me"}
           /\ SignedUnexpired(last'.arg.token)
           /\ last'.arg.token.payload.type = "refresh") => last'.status = 401
       /\ (/\ last'.op = "refresh"
           /\ SignedUnexpired(last'.arg.token)
           /\ last'.arg.token.payload.type = "access") =>
                 last'.status = 401 /\ bearer' = bearer]_vars

\* a refresh token of the administrator was presented to logout and refused
\* for its kind
C25_Witness ==
    /\ last.op = "logout"
    /\ last.arg.token \in RefreshTokens
    /\ last.arg.token.payload.user_id = 1
    /\ SignedUnexpired(last.arg.token)
    /\ last.status = 401
    /\ last.arg.detail = DetailTokenType

\* the account a token names
Subject(token) == Get(token.payload, "user_id", NoId)

\* C26: an unexpired refresh token made by create_refresh_token for an
\* account that is approved now yields a new access token whose role claim
\* is the role the table holds for the account now.
C26_RefreshCarriesCurrentRole ==
    [][(/\ last'.op = "refresh"
        /\ last'.arg.token \in RefreshTokens
        /\ SignedUnexpired(last'.arg.token)
        /\ Subject(last'.arg.token) \in Ids(users)
        /\ users[Subject(last'.arg.token)].is_approved) =>
            /\ last'.status = 200
            /\ bearer'.key = SECRET_KEY
            /\ bearer'.payload.type = "access"
            /\ bearer'.payload.user_id = Subject(last'.arg.token)
            /\ bearer'.payload.role = users[Subject(last'.arg.token)].role]_vars

\* C27: a refresh request whose token names an account that is absent or
\* not approved now is answered 401 and leaves the client without a new
\* access token.
C27_NoRefreshForUnapproved ==
    [][(/\ last'.op = "refresh"
        /\ \/ Subject(last'.arg.token) \notin Ids(users)
           \/ ~users[Subject(last'.arg.token)].is_approved) =>
            last'.status = 401 /\ bearer' = bearer]_vars

\* the refresh token of the self-registered account was presented while the
\* account was still waiting for approval
C27_Witness ==
    /\ last.op = "refresh"
    /\ last.arg.token \in RefreshTokens
    /\ SignedUnexpired(last.arg.token)
    /\ Subject(last.arg.token) = 2
    /\ 2 \in Ids(users)
    /\ ~users[2].is_approved
    /\ last.status = 401

\* C28: require_role(allowed...) admits a verified access token exactly when
\* its role claim is 'superuser' or in the allowed set; every other role is
\* answered 403, 'super_admin' outside the allowed set included.
C28_RequireRoleAdmits ==
    [][(last'.op = "require_role" /\ LoginToken /\ SignedUnexpired(bearer)) =>
          LET role    == bearer.payload.role
              allowed == last'.arg
          IN  /\ last'.status = 200 <=> (role = "superuser" \/ role \in allowed)
              /\ last'.status # 200 => last'.status = 403
              /\ (role = "super_admin" /\ role \notin allowed) =>
                     last'.status = 403]_vars

\* a super_admin token met a route that allows admin only
C28_Witness ==
    /\ last.op = "require_role"
    /\ LoginToken
    /\ SignedUnexpired(bearer)
    /\ bearer.payload.role = "super_admin"
    /\ last.arg = {"admin"}
    /\ last.status = 403

\* C29: the guard decides from the token and the clock alone: whatever the
\* table says of the subject by now (rejected, another role, no row), an
\* access token login issued is let through until its exp and authorises
\* with the role claim it carries.
C29_GuardIgnoresTable ==
    [][/\ (last'.op = "logout" /\ LoginToken /\ last'.arg.token = bearer) =>
             (last'.status = 200 <=> SignedUnexpired(bearer))
       /\ (last'.op = "require_role" /\ LoginToken) =>
             /\ last'.status = 401 <=> ~SignedUnexpired(bearer)
             /\ last'.status = 200 <=>
                    /\ SignedUnexpired(bearer)
                    /\ \/ bearer.payload.role = "superuser"
                       \/ bearer.payload.role \in last'.arg]_vars

\* the account was approved as super_admin, logged in, and its row was then
\* deleted: its token still passes an admin route
C29_Witness ==
    /\ last.op = "require_role"
    /\ last.arg = AdminRoles
    /\ LoginToken
    /\ SignedUnexpired(bearer)
    /\ Subject(bearer) = 2
    /\ bearer.payload.role = "super_admin"
    /\ 2 \notin Ids(users)
    /\ last.status = 200

\* C30: GET /auth/me with an unexpired access token login issued answers 200
\* with the information of the account that logged in.
C30_MeReturnsSubject ==
    [][(/\ last'.op = "me"
        /\ LoginToken
        /\ last'.arg.token = bearer
        /\ SignedUnexpired(bearer)
        /\ Subject(bearer) \in Ids(users)) =>
            last'.status = 200 /\ last'.target = Subject(bearer)]_vars

-----------------------------------------------------------------------------
(* Properties of the password policy and of stored credentials *)

\* the six messages in the order of the rules
RuleOrder == <<ErrLength, ErrUpper, ErrLower, ErrDigit, ErrSpecial, ErrUser>>

\* rule k of the policy is broken by the password, said character by
\* character
RuleBroken(k, password, username) ==
    CASE k = 1 -> Len(password) < 12
      [] k = 2 -> \A i \in DOMAIN password :
                     \A j \in DOMAIN UpperChars : password[i] # UpperChars[j]
      [] k = 3 -> \A i \in DOMAIN password :
                     \A j \in DOMAIN LowerChars : password[i] # LowerChars[j]
      [] k = 4 -> \A i \in DOMAIN password : password[i] \notin DigitChars
      [] k = 5 -> \A i \in DOMAIN password : password[i] \notin SPECIAL_CHARS
      [] k = 6 -> /\ username # NoStr
                  /\ \E i \in 1..(Len(password) - Len(username) + 1) :
                        \A j \in DOMAIN username :
                            LowerChar(password[i + j - 1]) = LowerChar(username[j])

TriedPasswords == {PwAdmin, PwUser, PwWeak}

\* C32: after a successful reset_password(ticket, new) on an account whose
\* password was old, old # new, authenticate with new succeeds and
\* authenticate with old fails.
C32_ResetCredentialRoundTrip ==
    [][(last'.op = "reset" /\ last'.status = 200) =>
          LET id    == last'.target
              new   == last'.arg.new_password
          IN  /\ authenticate_user(users', users'[id].email, new) = id
              /\ \A old \in TriedPasswords :
                    (/\ old # new
                     /\ authenticate_user(users, users[id].email, old) = id) =>
                        authenticate_user(users', users'[id].email, old) = NoId]_vars

\* the self-registered account redeemed a ticket with a password other than
\* the one it registered with, hashed under a salt of its own
C32_Witness ==
    /\ last.op = "reset"
    /\ last.status = 200
    /\ last.target = 2
    /\ last.arg.new_password = PwAdmin
    /\ users[2].hashed_password = hash_password(PwAdmin, "s2")
    /\ SeedStore[2].hashed_password = hash_password(PwUser, "s2")
    /\ authenticate_user(users, EUser, PwAdmin) = 2
    /\ authenticate_user(users, EUser, PwUser) = NoId

\* C33: every stored account's role is one of pending, teacher,
\* paraeducator, admin, super_admin, whatever approve, create educator,
\* update educator and users.update_user calls were made.
C33_StoredRoleInFiveRoles ==
    \A i \in Ids(users) :
        users[i].role \in {"pending", "teacher", "paraeducator", "admin",
                           "super_admin"}

Redeemable(store, token) ==
    reset_password(store, token, PwAdmin, "s1", now, TRUE).status = 200

\* C35: a successful approve leaves the target's reset ticket, its expiry
\* and requested_at and its credential hash as they were, so a ticket that
\* was redeemable before the approval is redeemable after it.
C35_ApproveKeepsResetFields ==
    [][(last'.op = "approve" /\ last'.status = 200) =>
          LET i == last'.target
          IN  /\ users'[i].password_reset_token = users[i].password_reset_token
              /\ users'[i].password_reset_expires =
                     users[i].password_reset_expires
              /\ users'[i].password_reset_requested_at =
                     users[i].password_reset_requested_at
              /\ users'[i].hashed_password = users[i].hashed_password
              /\ \A k \in 1..MaxTickets :
                    Redeemable(users, k) => Redeemable(users', k)]_vars

\* the account was approved as teacher while it held ticket 1, and the
\* ticket can still be redeemed
C35_Witness ==
    /\ last.op = "approve"
    /\ last.status = 200
    /\ last.target = 2
    /\ users[2].is_approved
    /\ users[2].role = "teacher"
    /\ users[2].password_reset_token = 1
    /\ lastWritten[2] = 1
    /\ Redeemable(users, 1)

\* C36: a reset_password attempt refused for its password, for an unknown
\* ticket or for an expired ticket changes no account: ticket, expiry,
\* requested_at and credential hash are as before, and an expired ticket
\* stays stored.
C36_FailedResetChangesNothing ==
    [][(last'.op = "reset" /\ last'.status = 400) =>
          /\ users' = users
          /\ \A i \in Ids(users) :
                /\ users'[i].password_reset_token = users[i].password_reset_token
                /\ users'[i].password_reset_expires =
                       users[i].password_reset_expires
                /\ users'[i].password_reset_requested_at =
                       users[i].password_reset_requested_at
                /\ users'[i].hashed_password = users[i].hashed_password]_vars

\* an expired ticket was presented with a sound password and is still the
\* one the account holds
C36_Witness ==
    /\ last.op = "reset"
    /\ last.status = 400
    /\ last.arg.detail = DetailResetExpired
    /\ last.arg.new_password = PwAdmin
    /\ last.target = 2
    /\ users[2].password_reset_token = last.arg.token
    /\ users[2].password_reset_expires < now
    /\ users[2].hashed_password = SeedStore[2].hashed_password

\* C37: the pending-users listing holds exactly the accounts with role
\* pending, is_approved false and is_rejected false, and no account a
\* successful approve or reject has named is listed, whatever approvals and
\* rejections followed.
C37_PendingListing ==
    [][(last'.op = "pending" /\ last'.status = 200) =>
          /\ last'.arg = {i \in Ids(users) : /\ users[i].role = "pending"
                                             /\ ~users[i].is_approved
                                             /\ ~users[i].is_rejected}
          /\ last'.arg \cap decided = {}]_vars

\* the self-registered account was rejected and is left out of the listing,
\* its role still pending
C37_Witness ==
    /\ last.op = "pending"
    /\ last.status = 200
    /\ 2 \in decided
    /\ users[2].role = "pending"
    /\ users[2].is_rejected
    /\ 2 \notin last.arg

\* C38: an account is inactive only while it is rejected; an account that
\* was rejected and approved again is active.
C38_InactiveOnlyWhileRejected ==
    \A i \in Ids(users) : ~users[i].is_active => users[i].is_rejected

\* C39: after update_educator succeeds with a password in the request,
\* authenticate with that password succeeds for the educator and
\* authenticate with the password it had before fails.
C39_UpdateEducatorSetsPassword ==
    [][(/\ last'.op = "update_educator"
        /\ last'.status = 200
        /\ last'.arg.password # NoStr) =>
          LET i   == last'.target
              new == last'.arg.password
          IN  /\ authenticate_user(users', users'[i].email, new) = i
              /\ \A old \in TriedPasswords :
                    (/\ old # new
                     /\ authenticate_user(users, users[i].email, old) = i) =>
                        authenticate_user(users', users'[i].email, old) = NoId]_vars

====
